---- MODULE Spec2Model ----
(***************************************************************************)
(* Model of the voice-call front end of voice-ai-orch.                     *)
(*                                                                         *)
(*   ActiveCall (VoiceRoom)      the segment reconciler effect over the    *)
(*                               agentTranscriptions list of the           *)
(*                               useVoiceAssistant hook, and handleData    *)
(*                               for the side-channel data messages;       *)
(*   App                         the transcript log: handleTranscript,     *)
(*                               handleAgentStream, handleRagSources;      *)
(*   VoiceRoom                   the call session: connect, disconnect;    *)
(*   PromptEditor                the persona editor: load, edit, save;     *)
(*   DocUpload                   the document panel: handleUpload.         *)
(*                                                                         *)
(* Texts are strings; the reconciler's join is string concatenation with   *)
(* a single space, as Array.prototype.join(' ') computes it.               *)
(***************************************************************************)
EXTENDS Integers, Sequences, FiniteSets, TLC

\* ------------------------------------------------------------- bounds
MaxSegs == 2      \* longest agentTranscriptions list explored
MaxMsgs == 2      \* longest transcript log explored
MaxInterleaved == 3   \* longest log explored when caller and agent interleave

Texts    == {"a", "b"}        \* texts a transcription segment may carry
MsgTexts == {"a"}             \* texts a transcript data message may carry
Turns    == {1, 2}            \* agent turns (responses) of a call

\* ------------------------------------------------------------- state
VARIABLES
    agentTranscriptions,  \* useVoiceAssistant().agentTranscriptions
    curTurn,              \* turn of the newest segment the agent has produced
    committedIndexRef,    \* ActiveCall: cursor, segments below it are committed
    lastTextRef,          \* ActiveCall: text of the last emitted update
    streamingActiveRef,   \* ActiveCall: a streaming update was emitted
    transcriptMessages,   \* App: the transcript log
    pendingUpdaters,      \* App: updaters of the log queued for the next render
    isStreamingRef,       \* App: an agent bubble is being streamed into
    ragSources,           \* App: the displayed source list
    tokenData,            \* VoiceRoom: the session token, or none
    isConnecting,         \* VoiceRoom: a connect attempt is in flight
    error,                \* VoiceRoom: the failure shown above the button
    tokenRequest,         \* VoiceRoom: connect awaits the answer of getToken
    activeSessions,       \* server: the clients holding an Active session
    endedMidStream,       \* history: the previous call ended during a stream
    prompt,               \* PromptEditor: the text in the textarea
    savedPrompt,          \* PromptEditor: the text the editor holds as saved
    loading,              \* PromptEditor: loadPrompt is running
    saving,               \* PromptEditor: handleSave is running
    saved,                \* PromptEditor: the "Saved" mark is shown
    savedTimers,          \* PromptEditor: pending setTimeout(setSaved(false))
    loadRequest,          \* PromptEditor: loadPrompt awaits getPrompt
    saveRequests,         \* PromptEditor: texts of the updatePrompt calls awaited
    serverPrompt,         \* server: the persona store
    acknowledged,         \* history: the text the server acknowledged last
    documents,            \* DocUpload: the displayed document list
    uploading,            \* DocUpload: handleUpload is running
    uploadError,          \* DocUpload: error, the failure shown in the panel
    listRequest,          \* DocUpload: the mount's loadDocuments awaits the list
    uploads,              \* DocUpload: the handleUpload runs that await
    deletes,              \* DocUpload: the handleDelete runs that await
    serverDocs,           \* server: the document store
    batchHist,            \* history: what the handleUpload that ended last did
    msgMeta,              \* history: per log message, its origin and turns
    lastUpdate,           \* history: the last streaming update emitted (n
                          \* alternates, so that equal updates are told apart)
    nFinal,               \* history: per turn, updates emitted with final=true
    lastOp                \* history: the session or panel operation handled last

vars == <<agentTranscriptions, curTurn, committedIndexRef, lastTextRef,
          streamingActiveRef, transcriptMessages, pendingUpdaters,
          isStreamingRef, ragSources,
          tokenData, isConnecting, error, tokenRequest, activeSessions,
          endedMidStream,
          prompt, savedPrompt, loading, saving, saved, savedTimers, loadRequest,
          saveRequests, serverPrompt, acknowledged,
          documents, uploading, uploadError, listRequest, uploads, deletes,
          serverDocs, batchHist,
          msgMeta, lastUpdate, nFinal, lastOp>>

reconcilerVars == <<committedIndexRef, lastTextRef, streamingActiveRef>>
hookVars       == <<agentTranscriptions, curTurn>>
updateHist     == <<lastUpdate, nFinal>>
roomVars       == <<tokenData, isConnecting, error>>
sessionVars    == <<roomVars, tokenRequest, activeSessions, endedMidStream>>
editorVars     == <<prompt, savedPrompt, loading, saving, saved, savedTimers,
                    loadRequest, saveRequests, serverPrompt, acknowledged>>
uploadVars     == <<documents, uploading, uploadError, listRequest, uploads,
                    deletes, serverDocs, batchHist>>
panelVars      == <<editorVars, uploadVars>>

NoToken == "null"             \* useState<TokenResponse | null>(null)
Token   == "token"            \* a TokenResponse
NoError == "null"             \* useState<string | null>(null)

\* ActiveCall is rendered, inside LiveKitRoom, only while there is a token.
CallActive == tokenData # NoToken

NoUpdate == [text |-> "", final |-> FALSE, turn |-> 0, turns |-> {}, from |-> 0,
             n |-> 0]
NoOp     == [kind |-> "none"]

\* ------------------------------------------------------------- helpers
\* s.map(x => x.text).join(' ')
RECURSIVE JoinTexts(_)
JoinTexts(segs) ==
    IF Len(segs) = 0 THEN ""
    ELSE IF Len(segs) = 1 THEN segs[1].text
    ELSE segs[1].text \o " " \o JoinTexts(Tail(segs))

\* s.every(x => x.final)
AllFinal(segs) == \A i \in 1..Len(segs) : segs[i].final

\* agentTranscriptions.slice(committedIndexRef.current)
currentSegmentsAll(segs, idx) == segs
currentSegments(segs, idx) ==
    IF idx >= Len(segs) THEN <<>> ELSE SubSeq(segs, idx + 1, Len(segs))

\* if (allFinal) committedIndexRef.current = agentTranscriptions.length
CommitIndexNever(segs, allFinal, idx) == idx
CommitIndex(segs, allFinal, idx) == IF allFinal THEN Len(segs) ELSE idx

\* text !== lastTextRef.current
TextChangedAlways(text, last) == TRUE
TextChanged(text, last) == text # last

TurnsOf(segs) == {segs[i].turn : i \in 1..Len(segs)}
NewestTurn(segs) == segs[Len(segs)].turn

\* ------------------------------------------------------------- App: transcript log
\* The log with its streaming flag, as the handlers of App read and write it
\* (meta is the history kept beside each message; pending holds the updaters
\* passed to setTranscriptMessages that React has not run yet).
AppState == [msgs |-> transcriptMessages, streaming |-> isStreamingRef,
             meta |-> msgMeta, pending |-> pendingUpdaters]

\* prev => [...prev, msg]
appendUpdater(app, msg, turns) ==
    [app EXCEPT !.msgs = Append(@, msg),
                !.meta = Append(@, [src |-> "data", turns |-> turns])]

\* The state updater handleAgentStream passes to setTranscriptMessages.
streamUpdaterFirst(app, fullText, turns) ==
    IF ~app.streaming
    THEN [app EXCEPT !.msgs = Append(@, [role |-> "agent", text |-> fullText]),
                     !.streaming = TRUE,
                     !.meta = Append(@, [src |-> "stream", turns |-> turns])]
    ELSE IF Len(app.msgs) >= 1
         THEN [app EXCEPT !.msgs[1].text = fullText,
                          !.meta[1].turns = @ \cup turns]
         ELSE app

streamUpdater(app, fullText, turns) ==
    IF ~app.streaming
    THEN [app EXCEPT !.msgs = Append(@, [role |-> "agent", text |-> fullText]),
                     !.streaming = TRUE,
                     !.meta = Append(@, [src |-> "stream", turns |-> turns])]
    ELSE LET last == Len(app.msgs) IN
         IF last >= 1 /\ app.msgs[last].role = "agent"
         THEN [app EXCEPT !.msgs[last].text = fullText,
                          !.meta[last].turns = @ \cup turns]
         ELSE app

\* A queued updater, as React runs it.
RunUpdater(app, u) ==
    IF u.kind = "append" THEN appendUpdater(app, u.msg, u.turns)
    ELSE streamUpdater(app, u.text, u.turns)

\* setTranscriptMessages(updater): React runs the updater inside the call when
\* no update of App is pending and it takes its eager path, and queues it for
\* the next render of App otherwise.
Queued(app, u) == [app EXCEPT !.pending = Append(@, u)]

\* When React may run an updater: inside the call (TRUE) or at the next render.
UpdaterTimings(pending) == IF pending = <<>> THEN BOOLEAN ELSE {FALSE}

\* handleTranscript: isStreamingRef.current = false; prev => [...prev, msg]
handleTranscript(app, msg, turns, eager) ==
    LET reset == [app EXCEPT !.streaming = FALSE] IN
    IF eager THEN appendUpdater(reset, msg, turns)
    ELSE Queued(reset, [kind |-> "append", msg |-> msg, turns |-> turns,
                        text |-> msg.text])

\* handleAgentStream(fullText, isFinal): the updater, then
\* if (isFinal) isStreamingRef.current = false.
handleAgentStream(app, fullText, isFinal, eager, turns) ==
    LET called == IF eager THEN streamUpdater(app, fullText, turns)
                  ELSE Queued(app, [kind |-> "stream",
                                    msg |-> [role |-> "agent", text |-> fullText],
                                    turns |-> turns, text |-> fullText])
    IN  [called EXCEPT !.streaming = IF isFinal THEN FALSE ELSE @]

\* App renders: React runs the queued updaters in the order they were queued.
RECURSIVE RunUpdaters(_)
RunUpdaters(app) ==
    IF app.pending = <<>> THEN app
    ELSE RunUpdaters(RunUpdater([app EXCEPT !.pending = Tail(@)],
                                Head(app.pending)))

\* handleRagSources: setRagSources(sources)
handleRagSourcesAppend(sources) == ragSources \o sources
handleRagSources(sources) == sources

SetApp(app) ==
    /\ transcriptMessages' = app.msgs
    /\ isStreamingRef' = app.streaming
    /\ msgMeta' = app.meta
    /\ pendingUpdaters' = app.pending

appVars == <<transcriptMessages, isStreamingRef, msgMeta, pendingUpdaters>>

\* ------------------------------------------------------------- ActiveCall: reconciler
\* The effect on [agentTranscriptions, onAgentStream], run with the list segs.
ReconcilerEffect(segs) ==
    /\ CallActive
    /\ agentTranscriptions' = segs
    /\ ragSources' = ragSources
    /\ UNCHANGED <<sessionVars, panelVars, lastOp>>
    /\ IF Len(segs) = 0
       THEN /\ committedIndexRef' = 0
            /\ lastTextRef' = ""
            /\ UNCHANGED <<streamingActiveRef, appVars, updateHist>>
       ELSE LET cur == currentSegments(segs, committedIndexRef) IN
            IF Len(cur) = 0
            THEN UNCHANGED <<reconcilerVars, appVars, updateHist>>
            ELSE LET text     == JoinTexts(cur)
                     allFinal == AllFinal(cur)
                     emit     == TextChanged(text, lastTextRef)
                     turn     == NewestTurn(cur)
                 IN  /\ IF emit
                        THEN /\ streamingActiveRef' = TRUE
                             /\ \E eager \in UpdaterTimings(pendingUpdaters) :
                                    SetApp(handleAgentStream(AppState, text, allFinal,
                                                             eager, TurnsOf(cur)))
                             /\ lastUpdate' = [text |-> text, final |-> allFinal,
                                               turn |-> turn, turns |-> TurnsOf(cur),
                                               from |-> committedIndexRef,
                                               n |-> 1 - lastUpdate.n]
                             /\ nFinal' = IF allFinal
                                          THEN [nFinal EXCEPT ![turn] = @ + 1]
                                          ELSE nFinal
                        ELSE UNCHANGED <<streamingActiveRef, appVars, updateHist>>
                     /\ lastTextRef' = IF allFinal THEN ""
                                       ELSE IF emit THEN text ELSE lastTextRef
                     /\ committedIndexRef' = CommitIndex(segs, allFinal,
                                                         committedIndexRef)

\* ------------------------------------------------------------- the hook's list
\* The current turn still has a segment that is not final.
TurnOpen ==
    \E i \in 1..Len(agentTranscriptions) :
        /\ agentTranscriptions[i].turn = curTurn
        /\ ~agentTranscriptions[i].final

\* A new segment arrives: one more of the open turn, or the first of the next
\* turn (while the older turn is still open: a barge-in).
SegmentAppended ==
    /\ Len(agentTranscriptions) < MaxSegs
    /\ \E text \in Texts, final \in BOOLEAN, turn \in Turns :
        /\ \/ turn = curTurn /\ TurnOpen
           \/ turn = curTurn + 1
        /\ curTurn' = turn
        /\ ReconcilerEffect(Append(agentTranscriptions,
                                   [text |-> text, final |-> final, turn |-> turn]))

\* A segment that is not final yet is revised, finalized, or both.
SegmentUpdated ==
    \E i \in 1..Len(agentTranscriptions), text \in Texts, final \in BOOLEAN :
        /\ ~agentTranscriptions[i].final
        /\ <<text, final>> # <<agentTranscriptions[i].text, FALSE>>
        /\ curTurn' = curTurn
        /\ ReconcilerEffect([agentTranscriptions EXCEPT ![i].text = text,
                                                        ![i].final = final])

\* The hook hands out a new array with the same segments.
SegmentsRepeated ==
    /\ Len(agentTranscriptions) > 0
    /\ curTurn' = curTurn
    /\ ReconcilerEffect(agentTranscriptions)

\* The hook's list is reset (the agent's track changes).
SegmentsCleared ==
    /\ Len(agentTranscriptions) > 0
    /\ curTurn' = curTurn
    /\ ReconcilerEffect(<<>>)

\* ------------------------------------------------------------- ActiveCall: handleData
NoSources == <<"undefined">>
SourceLists == {NoSources, <<"s2", "s1">>}

\* What JSON.parse yields for a payload; json = FALSE when it throws.
DataMsg(json, type, role, text, sources, turn) ==
    [json |-> json, type |-> type, role |-> role, text |-> text,
     sources |-> sources, turn |-> turn]

\* The turn an agent final utterance sent on the data channel belongs to: the
\* current one, or the next one when it overtakes that turn's first segment.
FallbackTurns == {t \in Turns : t = curTurn \/ t = curTurn + 1}

DataMsgs ==
    {DataMsg(FALSE, "", "", "", NoSources, 0)}
    \cup {DataMsg(TRUE, "transcript", r, t, NoSources, 0) :
            r \in {"user", "system"}, t \in MsgTexts}
    \cup {DataMsg(TRUE, "transcript", "agent", t, NoSources, n) :
            t \in MsgTexts, n \in FallbackTurns}
    \cup {DataMsg(TRUE, "rag_sources", "", "", s, 0) : s \in SourceLists}
    \cup {DataMsg(TRUE, "other", "", "", NoSources, 0)}

\* msg.role === 'agent' && !streamingActiveRef.current
FallbackAlways(active) == TRUE
FallbackAllowed(active) == ~active

\* msg.role === 'user'
IsUserElse(m) == m.role # "agent"
IsUser(m) == m.role = "user"

\* msg.sources || []
SourcesOf(m) == IF m.sources = NoSources THEN <<>> ELSE m.sources

handleData(m) ==
    /\ CallActive
    /\ UNCHANGED <<hookVars, reconcilerVars, updateHist, sessionVars, panelVars,
                   lastOp>>
    /\ IF ~m.json THEN UNCHANGED <<appVars, ragSources>>
       ELSE IF m.type = "transcript"
       THEN /\ ragSources' = ragSources
            /\ IF IsUser(m)
               THEN \E eager \in UpdaterTimings(pendingUpdaters) :
                        SetApp(handleTranscript(AppState,
                                   [role |-> "user", text |-> m.text], {}, eager))
               ELSE IF m.role = "agent" /\ FallbackAllowed(streamingActiveRef)
               THEN \E eager \in UpdaterTimings(pendingUpdaters) :
                        SetApp(handleTranscript(AppState,
                                   [role |-> "agent", text |-> m.text], {m.turn},
                                   eager))
               ELSE UNCHANGED appVars
       ELSE IF m.type = "rag_sources"
       THEN /\ ragSources' = handleRagSources(SourcesOf(m))
            /\ UNCHANGED appVars
       ELSE UNCHANGED <<appVars, ragSources>>

DataReceived == \E m \in DataMsgs : handleData(m)

\* The payloads but for the source events.
TranscriptPayloads == {m \in DataMsgs : m.type # "rag_sources"}

TranscriptPayloadReceived == \E m \in TranscriptPayloads : handleData(m)

\* The caller's utterances among the payloads.
UserTranscripts == {m \in DataMsgs : m.json /\ m.type = "transcript" /\ IsUser(m)}

UserTranscriptReceived == \E m \in UserTranscripts : handleData(m)

\* ------------------------------------------------------------- App: render
\* React renders App with the updaters that were queued since the last render.
AppRendered ==
    /\ pendingUpdaters # <<>>
    /\ SetApp(RunUpdaters(AppState))
    /\ UNCHANGED <<hookVars, reconcilerVars, updateHist, ragSources, sessionVars,
                   panelVars, lastOp>>

\* ------------------------------------------------------------- VoiceRoom: the session
\* The server's session registry, acquire on connect: the session is granted
\* when none is Active and refused with a conflict otherwise, never queued.
acquire(active, c) ==
    IF active = {} THEN [ok |-> TRUE, active |-> {c}]
    ELSE [ok |-> FALSE, active |-> active]

\* The registry's release on disconnect.
release(active, c) == active \ {c}

\* What the token request comes back with: the registry's answer, or nothing
\* when the server is not reached.
TokenRequest(reached) ==
    IF ~reached THEN [res |-> "unreachable", active |-> activeSessions]
    ELSE LET grant == acquire(activeSessions, "caller") IN
         [res |-> IF grant.ok THEN "ok" ELSE "conflict", active |-> grant.active]

\* getToken: fetch rejects when the server is not reached;
\* if (!res.ok) throw new Error('Failed to get token'); return res.json()
getTokenUnchecked(res) ==
    IF res = "unreachable"
    THEN [threw |-> TRUE, message |-> "Failed to fetch"]
    ELSE [threw |-> FALSE, message |-> NoError]
getToken(res) ==
    IF res = "unreachable"
    THEN [threw |-> TRUE, message |-> "Failed to fetch"]
    ELSE IF res # "ok"
    THEN [threw |-> TRUE, message |-> "Failed to get token"]
    ELSE [threw |-> FALSE, message |-> NoError]

\* connect: finally { setIsConnecting(false) }
connectNoFinally(threw, connecting) == IF threw THEN connecting ELSE FALSE
connectFinally(threw, connecting) == FALSE

\* disconnect: setTokenData(null)
disconnectKept(prev) == prev
disconnect(prev) == NoToken

SessionOp(kind) == [kind |-> kind]

\* connect, up to its await.  The Start Call button is rendered while there is
\* no token and is disabled while an attempt is in flight.
ConnectClicked ==
    /\ tokenData = NoToken
    /\ ~isConnecting
    /\ isConnecting' = TRUE
    /\ error' = NoError
    /\ tokenRequest' = TRUE
    /\ lastOp' = SessionOp("connect")
    /\ UNCHANGED <<tokenData, activeSessions, endedMidStream, hookVars, reconcilerVars,
                   appVars, ragSources, updateHist, panelVars>>

\* connect, from the await on: try { setTokenData(data) } catch { setError(..) }
\* finally { setIsConnecting(false) }.
TokenReturned ==
    /\ tokenRequest
    /\ tokenRequest' = FALSE
    /\ \E reached \in BOOLEAN :
          LET req == TokenRequest(reached)
              got == getToken(req.res)
          IN  /\ activeSessions' = req.active
              /\ tokenData' = IF got.threw THEN tokenData ELSE Token
              /\ error' = IF got.threw THEN got.message ELSE error
              /\ isConnecting' = connectFinally(got.threw, isConnecting)
              /\ lastOp' = SessionOp("connect:" \o req.res)
    /\ UNCHANGED <<panelVars, endedMidStream, hookVars, reconcilerVars, appVars, ragSources, updateHist>>

\* VoiceRoom.disconnect, with what it brings about: without a token ActiveCall
\* is unmounted, so its refs and the hook's list start afresh in the next call;
\* the state of App stays.
Disconnected(kind) ==
    /\ CallActive
    /\ tokenData' = disconnect(tokenData)
    /\ activeSessions' = release(activeSessions, "caller")
    /\ lastOp' = SessionOp(kind)
    /\ UNCHANGED <<isConnecting, error, tokenRequest, appVars, ragSources, panelVars>>
    /\ IF disconnect(tokenData) = NoToken
       THEN /\ agentTranscriptions' = <<>>
            /\ curTurn' = 0
            /\ committedIndexRef' = 0
            /\ lastTextRef' = ""
            /\ streamingActiveRef' = FALSE
            /\ lastUpdate' = NoUpdate
            /\ nFinal' = [t \in Turns |-> 0]
            /\ endedMidStream' = (lastUpdate # NoUpdate /\ ~lastUpdate.final)
       ELSE UNCHANGED <<hookVars, reconcilerVars, updateHist, endedMidStream>>

\* handleDisconnect (the End Call button): room?.disconnect(); onDisconnect()
EndCall == Disconnected("endCall")

\* LiveKitRoom onDisconnected={disconnect}: the transport ended the call.
RoomDisconnected == Disconnected("disconnected")

\* Another client takes the session, or gives it back.
OtherConnects ==
    /\ acquire(activeSessions, "other").ok
    /\ activeSessions' = acquire(activeSessions, "other").active
    /\ lastOp' = SessionOp("other:connect")
    /\ UNCHANGED <<panelVars, roomVars, tokenRequest, endedMidStream, hookVars, reconcilerVars, appVars,
                   ragSources, updateHist>>

OtherDisconnects ==
    /\ "other" \in activeSessions
    /\ activeSessions' = release(activeSessions, "other")
    /\ lastOp' = SessionOp("other:disconnect")
    /\ UNCHANGED <<panelVars, roomVars, tokenRequest, endedMidStream, hookVars, reconcilerVars, appVars,
                   ragSources, updateHist>>

\* ------------------------------------------------------------- PromptEditor
MaxTimers == 2                    \* most pending "Saved" timers explored
PromptTexts == {"", "p", "q"}     \* persona texts
DefaultPrompt == "p"              \* the persona the server starts with
Unacknowledged == "<none>"        \* history: no text acknowledged yet

\* Everything outside the two side panels, but for the history of operations.
roomSide == <<hookVars, reconcilerVars, appVars, ragSources, updateHist, sessionVars>>

\* PromptEditor as it is mounted: the effect has called loadPrompt.
EditorInit ==
    /\ prompt = ""
    /\ savedPrompt = ""
    /\ loading = TRUE
    /\ saving = FALSE
    /\ saved = FALSE
    /\ savedTimers = 0
    /\ loadRequest = TRUE
    /\ saveRequests = <<>>
    /\ serverPrompt = DefaultPrompt
    /\ acknowledged = Unacknowledged

EditorOp(kind) == [kind |-> kind]

\* const hasChanges = prompt !== savedPrompt
hasChanges == prompt # savedPrompt

\* What a request to the persona store comes back with: answered, refused, or
\* answered with the answer lost on its way.
Answers == {"ok", "refused", "lost"}

\* The persona store's set(text): applied unless the request is refused.
setPersona(stored, text, answer) == IF answer = "refused" THEN stored ELSE text

\* getPrompt / updatePrompt: throw unless res.ok
Threw(answer) == answer # "ok"

\* handleSave: setSavedPrompt(prompt), with the prompt of the render in which
\* Save was clicked.
savedAfterSaveCurrent(sent, current) == current
savedAfterSave(sent, current) == sent

\* loadPrompt, from its await on.
LoadReturned ==
    /\ loadRequest
    /\ loadRequest' = FALSE
    /\ loading' = FALSE
    /\ \E answer \in Answers :
          /\ lastOp' = EditorOp("load:" \o answer)
          /\ IF Threw(answer)
             THEN UNCHANGED <<prompt, savedPrompt, acknowledged>>
             ELSE /\ prompt' = serverPrompt
                  /\ savedPrompt' = serverPrompt
                  /\ acknowledged' = serverPrompt
    /\ UNCHANGED <<saving, saved, savedTimers, saveRequests, serverPrompt, roomSide, uploadVars>>

\* The textarea's onChange; it is rendered once loading is over.
Typed ==
    /\ ~loading
    /\ \E text \in PromptTexts \ {prompt} : prompt' = text
    /\ lastOp' = EditorOp("type")
    /\ UNCHANGED <<savedPrompt, loading, saving, saved, savedTimers, loadRequest,
                   saveRequests, serverPrompt, acknowledged, roomSide, uploadVars>>

\* handleSave up to its await; Save is disabled while saving || !hasChanges.
SaveClicked ==
    /\ ~loading
    /\ ~(saving \/ ~hasChanges)
    /\ saving' = TRUE
    /\ saveRequests' = Append(saveRequests, prompt)
    /\ lastOp' = EditorOp("save")
    /\ UNCHANGED <<prompt, savedPrompt, loading, saved, savedTimers, loadRequest,
                   serverPrompt, acknowledged, roomSide, uploadVars>>

\* handleSave from its await on.
SaveReturned ==
    /\ saveRequests # <<>>
    /\ saveRequests' = Tail(saveRequests)
    /\ saving' = FALSE
    /\ \E answer \in Answers :
          LET sent == Head(saveRequests) IN
          /\ serverPrompt' = setPersona(serverPrompt, sent, answer)
          /\ lastOp' = EditorOp("save:" \o answer)
          /\ IF Threw(answer)
             THEN UNCHANGED <<savedPrompt, saved, savedTimers, acknowledged>>
             ELSE /\ savedTimers < MaxTimers
                  /\ savedPrompt' = savedAfterSave(sent, prompt)
                  /\ saved' = TRUE
                  /\ savedTimers' = savedTimers + 1
                  /\ acknowledged' = sent
    /\ UNCHANGED <<prompt, loading, loadRequest, roomSide, uploadVars>>

\* The Reset button, rendered while hasChanges: setPrompt(savedPrompt)
ResetClicked ==
    /\ ~loading
    /\ hasChanges
    /\ prompt' = savedPrompt
    /\ lastOp' = EditorOp("reset")
    /\ UNCHANGED <<savedPrompt, loading, saving, saved, savedTimers, loadRequest,
                   saveRequests, serverPrompt, acknowledged, roomSide, uploadVars>>

\* setTimeout(() => setSaved(false), 2000)
SavedTimerFired ==
    /\ savedTimers > 0
    /\ savedTimers' = savedTimers - 1
    /\ saved' = FALSE
    /\ lastOp' = EditorOp("timer")
    /\ UNCHANGED <<prompt, savedPrompt, loading, saving, loadRequest, saveRequests,
                   serverPrompt, acknowledged, roomSide, uploadVars>>

\* ------------------------------------------------------------- DocUpload
MaxBatch == 2                    \* most files in one selection explored
Files == {"f1", "f2"}            \* the files a caller may select

\* The selections: FileList objects of up to MaxBatch different files, or none.
RECURSIVE FileLists(_)
FileLists(n) ==
    IF n = 0 THEN {<<>>}
    ELSE LET shorter == FileLists(n - 1)
             longest == {fl \in shorter : Len(fl) = n - 1}
         IN  shorter \cup
             UNION {{Append(fl, f) : f \in Files \ {fl[i] : i \in 1..Len(fl)}} :
                       fl \in longest}

NoBatch == [sent |-> <<>>, stored |-> 0, reloaded |-> FALSE]

MaxRuns == 2                     \* most handleUpload runs awaiting at a time
MaxDeletes == 1                  \* most handleDelete runs awaiting at a time

\* DocUpload as it is mounted: the effect has called loadDocuments.
UploadInit ==
    /\ documents = {}
    /\ uploading = FALSE
    /\ uploadError = NoError
    /\ listRequest = TRUE
    /\ uploads = <<>>
    /\ deletes = <<>>
    /\ serverDocs = {}
    /\ batchHist = NoBatch

UploadOp(kind) == [kind |-> kind]

\* The runs but for the i-th, which has ended.
Ended(runs, i) == SubSeq(runs, 1, i - 1) \o SubSeq(runs, i + 1, Len(runs))

\* The document store's ingestion: applied unless the request is refused.
storeDocument(stored, file, answer) ==
    IF answer = "refused" THEN stored ELSE stored \cup {file}

\* The document store's removal: applied unless the request is refused.
removeDocument(stored, doc, answer) ==
    IF answer = "refused" THEN stored ELSE stored \ {doc}

\* The body of a response, as res.json() reads it: an empty body, which is
\* not JSON; the JSON value null; or a JSON object, with its detail ("" when
\* it has none).
NoBody == [json |-> FALSE, object |-> FALSE, detail |-> ""]
NullBody == [json |-> TRUE, object |-> FALSE, detail |-> ""]
Bodies == {NoBody, NullBody,
           [json |-> TRUE, object |-> TRUE, detail |-> ""],
           [json |-> TRUE, object |-> TRUE, detail |-> "Unsupported file type"]}

\* The body that comes with an answer: a lost answer brings none.
BodiesOf(answer) == IF answer = "lost" THEN {NoBody} ELSE Bodies

\* The messages of the errors the engine throws: the SyntaxError of
\* res.json() on an empty body, the TypeError of reading null.detail.
JsonSyntaxError == "Unexpected end of JSON input"
NullDetailError == "Cannot read properties of null (reading 'detail')"

\* uploadDocument: fetch rejects when the answer is lost; unless res.ok,
\*   err = await res.json().catch(() => ({ detail: 'Upload failed' }))
\*   throw new Error(err.detail || 'Upload failed');
\* else return res.json(), which rejects when the body is not JSON.
uploadDocument(answer, body) ==
    IF answer = "lost" THEN [threw |-> TRUE, message |-> "Failed to fetch"]
    ELSE IF answer = "refused"
    THEN IF ~body.json THEN [threw |-> TRUE, message |-> "Upload failed"]
         ELSE IF ~body.object THEN [threw |-> TRUE, message |-> NullDetailError]
         ELSE [threw |-> TRUE,
               message |-> IF body.detail # "" THEN body.detail
                           ELSE "Upload failed"]
    ELSE IF body.json THEN [threw |-> FALSE, message |-> NoError]
         ELSE [threw |-> TRUE, message |-> JsonSyntaxError]

\* deleteDocument: throw new Error('Failed to delete document') unless res.ok;
\* fetch rejects when the answer is lost.
deleteDocument(answer) ==
    IF answer = "ok" THEN [threw |-> FALSE, message |-> NoError]
    ELSE IF answer = "refused"
    THEN [threw |-> TRUE, message |-> "Failed to delete document"]
    ELSE [threw |-> TRUE, message |-> "Failed to fetch"]

\* loadDocuments: setDocuments(docs); a failure is swallowed.
loadDocuments(shown, stored, answer) == IF Threw(answer) THEN shown ELSE stored

\* The loadDocuments of the mount effect, from its await on.
MountListReturned ==
    /\ listRequest
    /\ listRequest' = FALSE
    /\ \E answer \in Answers :
          /\ documents' = loadDocuments(documents, serverDocs, answer)
          /\ lastOp' = UploadOp("list:" \o answer)
    /\ UNCHANGED <<uploading, uploadError, uploads, deletes, serverDocs,
                   batchHist, roomSide, editorVars>>

\* handleUpload(files) up to its first await.  The input and the drop zone
\* take a selection also while earlier runs await.
UploadStarted ==
    /\ Len(uploads) < MaxRuns
    /\ \E files \in FileLists(MaxBatch) :
          IF Len(files) = 0
          THEN /\ lastOp' = UploadOp("upload:none")
               /\ UNCHANGED <<uploading, uploadError, uploads>>
          ELSE /\ uploading' = TRUE
               /\ uploadError' = NoError
               /\ uploads' = Append(uploads,
                                [batch |-> files, next |-> 1, pc |-> "upload",
                                 sent |-> <<files[1]>>, stored |-> 0])
               /\ lastOp' = UploadOp("upload:start")
    /\ UNCHANGED <<documents, listRequest, deletes, serverDocs, batchHist, roomSide,
                   editorVars>>

\* A handleUpload from the await of uploadDocument(file) on: the next file, or
\* loadDocuments after the last one, or catch and finally.  The server stores
\* the file of an ok answer also when uploadDocument then fails to read the
\* body; a run counts as stored the files whose uploadDocument returned.
UploadReturned ==
    \E i \in 1..Len(uploads) :
        /\ uploads[i].pc = "upload"
        /\ \E answer \in Answers : \E body \in BodiesOf(answer) :
              LET run  == uploads[i]
                  file == run.batch[run.next]
                  got  == uploadDocument(answer, body)
              IN  /\ serverDocs' = storeDocument(serverDocs, file, answer)
                  /\ IF got.threw
                     THEN /\ uploadError' = got.message
                          /\ uploading' = FALSE
                          /\ uploads' = Ended(uploads, i)
                          /\ batchHist' = [sent |-> run.sent, stored |-> run.stored,
                                           reloaded |-> FALSE]
                          /\ lastOp' = UploadOp("upload:failed")
                     ELSE /\ UNCHANGED <<uploadError, uploading, batchHist>>
                          /\ IF run.next < Len(run.batch)
                             THEN uploads' =
                                    [uploads EXCEPT
                                       ![i].next = @ + 1,
                                       ![i].stored = @ + 1,
                                       ![i].sent = Append(@, run.batch[run.next + 1])]
                             ELSE uploads' = [uploads EXCEPT ![i].pc = "list",
                                                             ![i].stored = @ + 1]
                          /\ lastOp' = UploadOp("upload:stored")
        /\ UNCHANGED <<documents, listRequest, deletes, roomSide, editorVars>>

\* A handleUpload from the await of loadDocuments() on, and its finally.
UploadListReturned ==
    \E i \in 1..Len(uploads) :
        /\ uploads[i].pc = "list"
        /\ \E answer \in Answers :
              documents' = loadDocuments(documents, serverDocs, answer)
        /\ uploading' = FALSE
        /\ uploads' = Ended(uploads, i)
        /\ batchHist' = [sent |-> uploads[i].sent, stored |-> uploads[i].stored,
                         reloaded |-> TRUE]
        /\ lastOp' = UploadOp("upload:done")
        /\ UNCHANGED <<uploadError, listRequest, deletes, serverDocs, roomSide,
                       editorVars>>

\* handleDelete(docId) up to its first await: the remove button of a row.
DeleteClicked ==
    /\ Len(deletes) < MaxDeletes
    /\ \E doc \in documents :
          deletes' = Append(deletes, [doc |-> doc, pc |-> "delete"])
    /\ lastOp' = UploadOp("delete:start")
    /\ UNCHANGED <<documents, uploading, uploadError, listRequest, uploads,
                   serverDocs, batchHist, roomSide, editorVars>>

\* A handleDelete from the await of deleteDocument(docId) on: loadDocuments,
\* or catch { setError('Failed to delete') }.
DeleteReturned ==
    \E i \in 1..Len(deletes) :
        /\ deletes[i].pc = "delete"
        /\ \E answer \in Answers :
              /\ serverDocs' = removeDocument(serverDocs, deletes[i].doc, answer)
              /\ IF deleteDocument(answer).threw
                 THEN /\ uploadError' = "Failed to delete"
                      /\ deletes' = Ended(deletes, i)
                      /\ lastOp' = UploadOp("delete:failed")
                 ELSE /\ uploadError' = uploadError
                      /\ deletes' = [deletes EXCEPT ![i].pc = "list"]
                      /\ lastOp' = UploadOp("delete:removed")
        /\ UNCHANGED <<documents, uploading, listRequest, uploads, batchHist,
                       roomSide, editorVars>>

\* A handleDelete from the await of loadDocuments() on.
DeleteListReturned ==
    \E i \in 1..Len(deletes) :
        /\ deletes[i].pc = "list"
        /\ \E answer \in Answers :
              documents' = loadDocuments(documents, serverDocs, answer)
        /\ deletes' = Ended(deletes, i)
        /\ lastOp' = UploadOp("delete:done")
        /\ UNCHANGED <<uploading, uploadError, listRequest, uploads, serverDocs,
                       batchHist, roomSide, editorVars>>

\* ------------------------------------------------------------- specification
\* The explored runs keep the transcript log, with the updaters still queued
\* for it, within n messages.
LogWithin(n) == Len(transcriptMessages') + Len(pendingUpdaters') <= n

\* A call that has just been established: ActiveCall is mounted.
Init ==
    /\ tokenData = Token
    /\ isConnecting = FALSE
    /\ error = NoError
    /\ tokenRequest = FALSE
    /\ EditorInit
    /\ UploadInit
    /\ activeSessions = {"caller"}
    /\ endedMidStream = FALSE
    /\ agentTranscriptions = <<>>
    /\ curTurn = 0
    /\ committedIndexRef = 0
    /\ lastTextRef = ""
    /\ streamingActiveRef = FALSE
    /\ transcriptMessages = <<>>
    /\ pendingUpdaters = <<>>
    /\ isStreamingRef = FALSE
    /\ ragSources = <<>>
    /\ msgMeta = <<>>
    /\ lastUpdate = NoUpdate
    /\ nFinal = [t \in Turns |-> 0]
    /\ lastOp = NoOp

\* The call is explored with every payload of the data channel but the source
\* events, which have a specification of their own.
Next ==
    \/ SegmentAppended /\ LogWithin(MaxMsgs)
    \/ SegmentUpdated /\ LogWithin(MaxMsgs)
    \/ SegmentsRepeated /\ LogWithin(MaxMsgs)
    \/ SegmentsCleared
    \/ AppRendered
    \/ TranscriptPayloadReceived /\ LogWithin(MaxMsgs)

Spec == Init /\ [][Next]_vars

\* The same call with the source events, explored with one agent turn.
SourcesNext ==
    \/ SegmentAppended /\ LogWithin(MaxMsgs) /\ curTurn' = 1
    \/ SegmentUpdated /\ LogWithin(MaxMsgs)
    \/ SegmentsRepeated /\ LogWithin(MaxMsgs)
    \/ SegmentsCleared
    \/ AppRendered
    \/ DataReceived /\ LogWithin(MaxMsgs)

SourcesSpec == Init /\ [][SourcesNext]_vars

\* The same call, explored with a longer log.
InterleavedNext ==
    \/ SegmentAppended /\ LogWithin(MaxInterleaved)
    \/ SegmentUpdated /\ LogWithin(MaxInterleaved)
    \/ SegmentsRepeated /\ LogWithin(MaxInterleaved)
    \/ SegmentsCleared
    \/ AppRendered
    \/ TranscriptPayloadReceived /\ LogWithin(MaxInterleaved)

InterleavedSpec == Init /\ [][InterleavedNext]_vars

\* VoiceRoom as it is mounted: no call yet.
SessionInit ==
    /\ tokenData = NoToken
    /\ isConnecting = FALSE
    /\ error = NoError
    /\ tokenRequest = FALSE
    /\ EditorInit
    /\ UploadInit
    /\ activeSessions = {}
    /\ endedMidStream = FALSE
    /\ agentTranscriptions = <<>>
    /\ curTurn = 0
    /\ committedIndexRef = 0
    /\ lastTextRef = ""
    /\ streamingActiveRef = FALSE
    /\ transcriptMessages = <<>>
    /\ pendingUpdaters = <<>>
    /\ isStreamingRef = FALSE
    /\ ragSources = <<>>
    /\ msgMeta = <<>>
    /\ lastUpdate = NoUpdate
    /\ nFinal = [t \in Turns |-> 0]
    /\ lastOp = NoOp

\* The sessions are explored with calls of one agent turn and with the
\* caller's utterances as the only data messages.
SessionNext ==
    \/ ConnectClicked
    \/ TokenReturned
    \/ EndCall
    \/ RoomDisconnected
    \/ OtherConnects
    \/ OtherDisconnects
    \/ SegmentAppended /\ LogWithin(MaxMsgs) /\ curTurn' = 1
    \/ SegmentUpdated /\ LogWithin(MaxMsgs)
    \/ SegmentsRepeated /\ LogWithin(MaxMsgs)
    \/ SegmentsCleared
    \/ AppRendered
    \/ UserTranscriptReceived /\ LogWithin(MaxMsgs)

SessionSpec == SessionInit /\ [][SessionNext]_vars

\* The persona editor, beside a room without a call.
EditorNext ==
    \/ LoadReturned
    \/ Typed
    \/ SaveClicked
    \/ SaveReturned
    \/ ResetClicked
    \/ SavedTimerFired

EditorSpec == SessionInit /\ [][EditorNext]_vars

\* The document panel, beside a room without a call.
UploadNext ==
    \/ MountListReturned
    \/ UploadStarted
    \/ UploadReturned
    \/ UploadListReturned
    \/ DeleteClicked
    \/ DeleteReturned
    \/ DeleteListReturned

UploadSpec == SessionInit /\ [][UploadNext]_vars

\* ------------------------------------------------------------- properties
\* The segments of turn t in the hook's list, in ordinal order.
SegsOfTurn(t) == SelectSeq(agentTranscriptions, LAMBDA sg : sg.turn = t)

\* Every segment of turn t is final (and the turn has segments).
TurnFinal(t) == Len(SegsOfTurn(t)) > 0 /\ AllFinal(SegsOfTurn(t))

\* Turn t is committed: all of its segments are final and below the cursor.
TurnCommitted(t) ==
    /\ TurnFinal(t)
    /\ \A i \in 1..Len(agentTranscriptions) :
          agentTranscriptions[i].turn = t => i <= committedIndexRef

LogIndexes == 1..Len(transcriptMessages)

\* The agent messages of the log that streaming updates of turn t wrote.
StreamedMsgsOf(t) ==
    {i \in LogIndexes : /\ transcriptMessages[i].role = "agent"
                        /\ msgMeta[i].src = "stream"
                        /\ t \in msgMeta[i].turns}

\* The agent messages of the log that came as the data-channel final of turn t.
FallbackMsgsOf(t) ==
    {i \in LogIndexes : /\ transcriptMessages[i].role = "agent"
                        /\ msgMeta[i].src = "data"
                        /\ t \in msgMeta[i].turns}

\* App has rendered: no updater of the log is waiting to be run.
Rendered == pendingUpdaters = <<>>

\* The step emits a streaming update (onAgentStream is called).
Emits == lastUpdate' # NoUpdate /\ lastUpdate'.n # lastUpdate.n

\* The step is a run of the reconciler effect.
EffectRan ==
    /\ CallActive /\ CallActive'
    /\ agentTranscriptions' # agentTranscriptions \/ SegmentsRepeated

\* The agent final utterances the data channel may deliver.
AgentFinals ==
    {DataMsg(TRUE, "transcript", "agent", t, NoSources, n) :
        t \in MsgTexts, n \in FallbackTurns}

\* Only segment-list updates of turn t have been handled so far: no segment of
\* another turn has arrived and no data message has been added to the log.
OnlyTurn(t) ==
    /\ curTurn = t
    /\ TurnsOf(agentTranscriptions) = {t}
    /\ \A i \in LogIndexes : msgMeta[i].src = "stream"

\* C1: after a sequence of segment-list updates of one turn that ends with every
\* segment of the turn final, the log (once App has rendered) holds exactly one
\* agent message for that turn and its text is the space-joined text of the
\* turn's segments in ordinal order.
C1_OneMessagePerFinalTurn ==
    \A t \in Turns :
        (OnlyTurn(t) /\ TurnFinal(t) /\ Rendered) =>
            /\ Cardinality(StreamedMsgsOf(t)) = 1
            /\ \A i \in StreamedMsgsOf(t) :
                  transcriptMessages[i].text = JoinTexts(SegsOfTurn(t))

\* C2: once a turn is committed (all of its uncommitted segments were final),
\* exactly one streaming update with final=true has been emitted for it.
C2_OneFinalUpdatePerTurn ==
    \A t \in Turns : TurnCommitted(t) => nFinal[t] = 1

\* C3: an agent transcript data message handled after a streaming update was
\* emitted for the current agent turn leaves the transcript log as it was and
\* queues nothing for it.
C3_FallbackSuppressed ==
    [][\A m \in AgentFinals :
          (/\ handleData(m)
           /\ curTurn \in Turns
           /\ lastUpdate.turn = curTurn)
          => UNCHANGED <<transcriptMessages, pendingUpdaters>>]_vars

\* The current turn has streamed one message; a final utterance handled here is
\* dropped, so the state is the one it leaves.
C3_Witness ==
    /\ \A m \in AgentFinals : ENABLED handleData(m)
    /\ curTurn \in Turns
    /\ lastUpdate.turn = curTurn
    /\ streamingActiveRef
    /\ Rendered
    /\ \A i \in LogIndexes : msgMeta[i].src = "stream"
    /\ Len(transcriptMessages) = 1

\* C4: whatever the arrival order of a turn's data-channel final and its
\* streaming updates, the turn's agent content is in the log at most once: the
\* log never holds the turn's data-channel final beside a streamed message of
\* the same turn.
C4_FallbackNeverDuplicates ==
    \A t \in Turns : FallbackMsgsOf(t) # {} => StreamedMsgsOf(t) = {}

\* A step that appends exactly one message to the log.
LogAppends ==
    /\ Len(transcriptMessages') = Len(transcriptMessages) + 1
    /\ SubSeq(transcriptMessages', 1, Len(transcriptMessages)) = transcriptMessages

\* The operations on the log a step runs: the updaters of a render, one
\* otherwise.
LogOperations == IF Rendered THEN 1 ELSE Len(pendingUpdaters)

\* C5: the log changes only by appending one message per operation or by
\* replacing the text of its last message when that is an agent message and a
\* stream is in progress; so it never shrinks, and a user message or a message
\* that is not the last one never changes.
C5_LogAppendOnly ==
    [][LET n == Len(transcriptMessages) IN
       /\ Len(transcriptMessages') >= n
       /\ Len(transcriptMessages') <= n + LogOperations
       /\ \A i \in 1..n :
             \/ transcriptMessages'[i] = transcriptMessages[i]
             \/ /\ i = n
                /\ isStreamingRef
                /\ transcriptMessages[i].role = "agent"
                /\ transcriptMessages'[i].role = "agent"]_vars

\* The update 'a b' is never the first of its message: the message after the
\* caller's utterance was appended as 'a' and its text replaced.
C5_Witness ==
    /\ isStreamingRef
    /\ Rendered
    /\ transcriptMessages = <<[role |-> "user", text |-> "a"],
                              [role |-> "agent", text |-> "a b"]>>
    /\ msgMeta[2].src = "stream"

\* C6: the message of a committed agent turn is never changed again.
C6_CommittedMessageStable ==
    [][\A i \in LogIndexes :
          (\E t \in msgMeta[i].turns : TurnCommitted(t))
          => /\ Len(transcriptMessages') >= i
             /\ transcriptMessages'[i] = transcriptMessages[i]]_vars

\* The list holds a segment of a newer turn while a segment of an older turn is
\* not final yet.
BargeIn ==
    \E i, j \in 1..Len(agentTranscriptions) :
        /\ agentTranscriptions[i].turn < agentTranscriptions[j].turn
        /\ ~agentTranscriptions[i].final

\* C7: on a barge-in no streaming update and no transcript message mixes the
\* text of the stale turn with text of the newer turn.
C7_StaleTurnNeverMerged ==
    BargeIn =>
        /\ Cardinality(lastUpdate.turns) <= 1
        /\ \A i \in LogIndexes : Cardinality(msgMeta[i].turns) <= 1

\* C8: two consecutive streaming updates of one turn never carry the same text.
C8_NoDuplicateUpdate ==
    [][(Emits /\ lastUpdate'.turn = lastUpdate.turn)
       => lastUpdate'.text # lastUpdate.text]_vars

\* The text of the uncommitted segments is the text emitted last: a list
\* handed out here emits nothing, so the state is the one it leaves.
C8_Witness ==
    /\ ENABLED SegmentsRepeated
    /\ Len(agentTranscriptions) > committedIndexRef
    /\ lastTextRef = JoinTexts(currentSegments(agentTranscriptions, committedIndexRef))
    /\ lastUpdate.text = lastTextRef
    /\ lastUpdate.turn = curTurn

\* C9: presenting a fully finalized segment list again emits no streaming
\* update and commits nothing: log (with the updaters queued for it), cursor
\* and last-emitted text stay as the first presentation left them.
C9_ReplayIdempotent ==
    [][(SegmentsRepeated /\ AllFinal(agentTranscriptions))
       => /\ ~Emits
          /\ UNCHANGED <<transcriptMessages, pendingUpdaters>>
          /\ committedIndexRef' = committedIndexRef
          /\ lastTextRef' = lastTextRef
          /\ lastUpdate' = lastUpdate]_vars

\* A finalized list after its first presentation: one final update, one
\* message, the cursor at the end; the second presentation leaves this state.
C9_Witness ==
    /\ ENABLED SegmentsRepeated
    /\ Len(agentTranscriptions) > 0
    /\ AllFinal(agentTranscriptions)
    /\ committedIndexRef = Len(agentTranscriptions)
    /\ Rendered
    /\ Len(transcriptMessages) = 1
    /\ nFinal[1] = 1

\* C10: a streaming update carries exactly the space-joined text of the segments
\* at ordinal >= cursor of the list it was computed from, and draws on no
\* segment below the cursor.
C10_UpdateIsUncommittedText ==
    [][Emits =>
         LET cur == SubSeq(agentTranscriptions', committedIndexRef + 1,
                           Len(agentTranscriptions'))
         IN  /\ committedIndexRef < Len(agentTranscriptions')
             /\ lastUpdate'.text = JoinTexts(cur)
             /\ lastUpdate'.turns = TurnsOf(cur)
             /\ lastUpdate'.final = AllFinal(cur)]_vars

\* The update emitted last was computed with the cursor at 1 and carries the
\* text of the second segment only.
C10_Witness ==
    /\ lastUpdate.from = 1
    /\ Len(agentTranscriptions) = 2
    /\ lastUpdate.text = agentTranscriptions[2].text
    /\ agentTranscriptions[1].text # agentTranscriptions[2].text

\* The segments the effect run of this step found at or after the cursor.
Uncommitted ==
    IF committedIndexRef >= Len(agentTranscriptions') THEN <<>>
    ELSE SubSeq(agentTranscriptions', committedIndexRef + 1,
                Len(agentTranscriptions'))

\* C11: after the effect has processed a list whose uncommitted segments are all
\* final, the cursor equals the length of the list and the last-emitted text
\* is empty; the cursor always lies between 0 and the length of the list
\* processed last.
C11_CursorAtEndAfterCommit ==
    /\ [](committedIndexRef \in 0..Len(agentTranscriptions))
    /\ [](AllFinal(currentSegments(agentTranscriptions, committedIndexRef))
          => /\ committedIndexRef = Len(agentTranscriptions)
             /\ lastTextRef = "")
    /\ [][(EffectRan /\ AllFinal(Uncommitted))
          => /\ committedIndexRef' = Len(agentTranscriptions')
             /\ lastTextRef' = ""]_vars

\* The second segment was committed by a final update of its own.
C11_Witness ==
    /\ lastUpdate.final
    /\ lastUpdate.from = 1
    /\ committedIndexRef = 2
    /\ Len(agentTranscriptions) = 2
    /\ lastTextRef = ""

\* C12: on an empty list the effect emits nothing, commits nothing and resets the
\* cursor to zero and the last-emitted text to empty; on a list with no
\* segment at or after the cursor it emits nothing and leaves both unchanged.
C12_EmptyAndExhaustedLists ==
    [][EffectRan =>
         /\ Len(agentTranscriptions') = 0
            => /\ ~Emits
               /\ committedIndexRef' = 0
               /\ lastTextRef' = ""
               /\ UNCHANGED <<appVars, lastUpdate, nFinal>>
         /\ (Len(agentTranscriptions') > 0
             /\ committedIndexRef >= Len(agentTranscriptions'))
            => /\ ~Emits
               /\ UNCHANGED <<committedIndexRef, lastTextRef>>
               /\ UNCHANGED <<appVars, lastUpdate, nFinal>>]_vars

\* A cleared list after a turn was committed and a second one had started.
C12_Witness ==
    /\ Len(agentTranscriptions) = 0
    /\ lastUpdate.from = 1
    /\ ~lastUpdate.final
    /\ committedIndexRef = 0
    /\ lastTextRef = ""

\* The payloads outside the tagged union.
UnknownPayloads ==
    {DataMsg(FALSE, "", "", "", NoSources, 0),
     DataMsg(TRUE, "other", "", "", NoSources, 0)}
    \cup {DataMsg(TRUE, "transcript", "system", t, NoSources, 0) : t \in MsgTexts}

\* C15: a payload that is not valid JSON, or of a type other than transcript and
\* rag_sources, or a transcript of a role other than user and agent, leaves
\* the transcript log, the source list and the streaming flags unchanged.
C15_UnknownPayloadIgnored ==
    [][\A m \in UnknownPayloads :
          handleData(m) => UNCHANGED <<appVars, ragSources, streamingActiveRef>>]_vars

\* A call with a message, a stream and sources: an unknown payload handled here
\* must leave all of them, so the state is the one it leaves.
C15_Witness ==
    /\ \A m \in UnknownPayloads : ENABLED handleData(m)
    /\ Rendered
    /\ Len(transcriptMessages) = 1
    /\ isStreamingRef
    /\ streamingActiveRef
    /\ ragSources # <<>>

\* C16: handling a rag_sources event leaves the displayed list equal to the
\* sources the event carries, in order (empty when it carries none), whatever
\* the list was before, and leaves the transcript log unchanged.
C16_SourcesReplaced ==
    /\ [](CallActive =>
            \A sources \in SourceLists :
                ENABLED (/\ handleData(DataMsg(TRUE, "rag_sources", "", "", sources, 0))
                         /\ ragSources' = (IF sources = NoSources THEN <<>>
                                           ELSE sources)))
    /\ [][\A sources \in SourceLists :
             handleData(DataMsg(TRUE, "rag_sources", "", "", sources, 0))
             => /\ ragSources' = (IF sources = NoSources THEN <<>> ELSE sources)
                /\ UNCHANGED <<transcriptMessages, pendingUpdaters>>]_vars

C16_Witness ==
    /\ ragSources = <<"s2", "s1">>
    /\ Len(transcriptMessages) >= 1

\* Only segments of turn t have arrived, none of its updates was final yet, and
\* the log holds nothing but the updates' messages and the caller's utterances.
InterleavedTurn(t) ==
    /\ curTurn = t
    /\ TurnsOf(agentTranscriptions) = {t}
    /\ nFinal[t] = 0
    /\ \A i \in LogIndexes : \/ msgMeta[i].src = "stream"
                              \/ transcriptMessages[i].role = "user"

\* C17: for every interleaving of user transcript events with the streaming
\* updates of one agent turn, the log holds at most one agent message for that
\* turn.
C17_OneAgentMessageWhenInterleaved ==
    \A t \in Turns : InterleavedTurn(t) => Cardinality(StreamedMsgsOf(t)) <= 1

\* An agent transcript data message is appended to the log by this step, or
\* its append is queued for the next render.
FallbackAppended ==
    \/ /\ LogAppends
       /\ transcriptMessages'[Len(transcriptMessages')].role = "agent"
       /\ msgMeta'[Len(msgMeta')].src = "data"
       /\ pendingUpdaters' = pendingUpdaters
    \/ /\ Len(pendingUpdaters') = Len(pendingUpdaters) + 1
       /\ pendingUpdaters'[Len(pendingUpdaters')].kind = "append"
       /\ pendingUpdaters'[Len(pendingUpdaters')].msg.role = "agent"
       /\ transcriptMessages' = transcriptMessages

\* C18 as claimed: in a turn for which no streaming update was emitted, the
\* agent's data-channel final is appended to the log, also when an earlier
\* turn of the call did stream.
C18_SuppressionScopedToTurn ==
    \A m \in AgentFinals :
        (CallActive /\ ~TurnOpen /\ Rendered /\ StreamedMsgsOf(m.turn) = {})
        => ENABLED (handleData(m) /\ FallbackAppended)

\* C18 as amended: the suppression is scoped to the call.  An agent data-channel
\* final is appended while no streaming update has been emitted in the call,
\* and dropped from the first emitted update on, whatever turn it belongs to.
C18_SuppressionScopedToCall ==
    /\ []((CallActive /\ lastUpdate = NoUpdate) =>
            \A m \in AgentFinals : ENABLED (handleData(m) /\ FallbackAppended))
    /\ [][\A m \in AgentFinals :
             handleData(m)
             => IF lastUpdate = NoUpdate
                THEN FallbackAppended
                ELSE UNCHANGED <<transcriptMessages, pendingUpdaters>>]_vars

\* The first turn streamed and is committed; the final of the next turn, which
\* has not streamed, is dropped when it arrives here.
C18_Witness ==
    /\ \A m \in AgentFinals : ENABLED handleData(m)
    /\ curTurn = 1
    /\ Rendered
    /\ TurnCommitted(1)
    /\ StreamedMsgsOf(2) = {}
    /\ \A t \in Turns : FallbackMsgsOf(t) = {}

\* C19: once the log has handled a streaming update with final=true (the update
\* emitted last is final and its updater has run), its streaming flag is false.
C19_FinalUpdateEndsStream ==
    (lastUpdate.final /\ Rendered) => ~isStreamingRef

\* C13: at most one session is Active at any time; a connect attempt answered
\* while a session is Active fails with the session conflict: the caller gets
\* no token, is shown the failure, and the attempt is over (not queued, not
\* dropped silently).
C13_OneActiveSession ==
    /\ [](Cardinality(activeSessions) <= 1)
    /\ [](CallActive => activeSessions = {"caller"})
    /\ [](isConnecting => ~CallActive)
    /\ [][(/\ TokenReturned
           /\ lastOp'.kind \in {"connect:ok", "connect:conflict"}
           /\ activeSessions # {})
          => /\ lastOp'.kind = "connect:conflict"
             /\ tokenData' = NoToken
             /\ error' = "Failed to get token"
             /\ ~isConnecting'
             /\ activeSessions' = activeSessions]_vars

C13_Witness ==
    /\ lastOp.kind = "connect:conflict"
    /\ activeSessions = {"other"}
    /\ tokenData = NoToken
    /\ error = "Failed to get token"
    /\ ~isConnecting

\* C14: from every state of an active call, End Call and a transport-level
\* disconnect are possible and lead to the not-connected state (token cleared,
\* session released); a token is set only by a connect the caller started, and
\* connecting is possible again after the disconnect.
C14_DisconnectEndsSession ==
    /\ [](CallActive => ENABLED EndCall /\ ENABLED RoomDisconnected)
    /\ []((tokenData = NoToken /\ ~isConnecting) => ENABLED ConnectClicked)
    /\ [][(EndCall \/ RoomDisconnected)
          => /\ CallActive
             /\ tokenData' = NoToken
             /\ "caller" \notin activeSessions'
             /\ ~isConnecting']_vars
    /\ [][(~CallActive /\ tokenData' # NoToken)
          => isConnecting /\ TokenReturned /\ lastOp'.kind = "connect:ok"]_vars
    /\ [][(~isConnecting /\ isConnecting') => ConnectClicked]_vars

C14_Witness ==
    /\ lastOp.kind = "disconnected"
    /\ tokenData = NoToken
    /\ activeSessions = {}
    /\ ~isConnecting
    /\ endedMidStream
    /\ Len(transcriptMessages) > 0

\* C20: after a disconnect that happens mid-stream and a new connect, the first
\* streaming update of the new call (its updater run inside the call) appends a
\* new agent message and leaves the messages of the previous call as they are.
C20_NewCallStartsNewMessage ==
    [][(/\ endedMidStream /\ lastUpdate = NoUpdate /\ Emits
        /\ Rendered /\ pendingUpdaters' = <<>>)
       => LogAppends]_vars

\* A step in which the token request of a connect attempt failed.
ConnectFailed ==
    TokenReturned /\ lastOp'.kind \in {"connect:conflict", "connect:unreachable"}

\* C21: when the token request of a connect attempt fails, no session is
\* started, an error message is recorded and the connecting flag returns to
\* false, so that connect can be attempted again; starting a connect attempt
\* clears the recorded error; the connecting flag is false whenever no token
\* request is in flight.
C21_FailedConnectRecovers ==
    /\ [](~tokenRequest => ~isConnecting)
    /\ []((tokenData = NoToken /\ ~isConnecting) => ENABLED ConnectClicked)
    /\ [][ConnectFailed
          => /\ tokenData' = NoToken /\ tokenData = NoToken
             /\ "caller" \notin activeSessions'
             /\ error' \in {"Failed to get token", "Failed to fetch"}
             /\ ~isConnecting']_vars
    /\ [][ConnectClicked => error' = NoError]_vars

C21_Witness ==
    /\ lastOp.kind = "connect:unreachable"
    /\ error = "Failed to fetch"
    /\ tokenData = NoToken
    /\ ~isConnecting
    /\ ~tokenRequest

\* C22: savedPrompt is in every state the persona text the server acknowledged
\* last (the text loaded at mount or the text sent by the last successful
\* save; the empty initial text while there is none); a failed save leaves
\* savedPrompt unchanged and returns saving to false; a successful save records
\* the text that was sent, not text typed since; at most one save request is in
\* flight.
C22_SavedPromptIsAcknowledged ==
    /\ [](savedPrompt = IF acknowledged = Unacknowledged THEN "" ELSE acknowledged)
    /\ [](Len(saveRequests) <= 1)
    /\ [][lastOp'.kind \in {"save:refused", "save:lost"}
          => savedPrompt' = savedPrompt /\ ~saving']_vars
    /\ [][lastOp'.kind = "save:ok"
          => savedPrompt' = Head(saveRequests) /\ ~saving']_vars

C22_Witness ==
    /\ lastOp.kind = "save:ok"
    /\ ~saving
    /\ savedPrompt = "q"
    /\ acknowledged = "q"
    /\ serverPrompt = "q"
    /\ prompt = ""

\* The files a handleUpload has sent are the first files of its batch, in
\* order, and each but the last of them was stored.
SentInOrder(run) ==
    /\ Len(run.sent) <= Len(run.batch)
    /\ run.sent = SubSeq(run.batch, 1, Len(run.sent))
    /\ Len(run.sent) <= run.stored + 1

\* The step in which a handleUpload ends: at a failed upload, or after its
\* loadDocuments.
UploadFailed == UploadReturned /\ lastOp'.kind = "upload:failed"
UploadEnded == UploadFailed \/ UploadListReturned

\* C23: handleUpload sends the files of a batch one at a time in selection
\* order; when an upload fails no later file is sent and an error message is
\* recorded; once handleUpload has finished the uploading flag is false; and
\* the displayed list has been reloaded whenever a file of the batch was stored.
C23_UploadBatch ==
    /\ [](\A i \in 1..Len(uploads) : SentInOrder(uploads[i]))
    /\ [][UploadEnded => ~uploading']_vars
    /\ [][UploadFailed
          => /\ uploadError' # NoError
             /\ Len(uploads') = Len(uploads) - 1
             /\ \E i \in 1..Len(uploads) : batchHist'.sent = uploads[i].sent]_vars
    /\ [](batchHist.stored > 0 => batchHist.reloaded)
====
